---- MODULE Spec2Model ----
\* FPL Scout (src/fpl_scout.py): build_dataframe, score_players and
\* get_recommendations, each as one action over the tables it reads and writes.
\*
\* Python floats and numpy float64 values are IEEE-754 binary64.  A value is the
\* record [s, m, e] standing for s * m * 2^e with s in {1, -1} and a 53-bit
\* significand 2^52 <= m < 2^53 (zero is FZero); m is a little-endian tuple of
\* base-2^14 digits because a significand exceeds TLC's integers.  Every
\* arithmetic operation computes the exact result and rounds it to 53 bits,
\* ties to even.  Magnitudes stay far from the subnormal and overflow ranges,
\* which are not modelled.
EXTENDS Integers, Sequences, FiniteSets, TLC

VARIABLES pc, exc, bootstrap, fixtures, current_gw, df, normed, normed_df, ranked, query, out

vars == <<pc, exc, bootstrap, fixtures, current_gw, df, normed, normed_df, ranked, query, out>>

----
\* Natural numbers as tuples of base-2^14 digits, least significant first

DigitBits == 14
Base == 16384
Precision == 53
MantissaDigits == 4
WideDigits == 8

Pow2(n) == 2 ^ n

Dig(a, j) == IF j \in DOMAIN a THEN a[j] ELSE 0

\* the sequence f with its elements computed
Digits(f) == f \o <<>>

\* the function f with its values computed
Computed(f) == CHOOSE g \in {f} : g = g

Resize(a, n) == Digits([j \in 1..n |-> Dig(a, j)])

\* a machine integer has at most three digits
FromNat(n, len) == Digits([j \in 1..len |-> IF j <= 3 THEN (n \div Base ^ (j - 1)) % Base ELSE 0])

IsZero(a) == \A j \in DOMAIN a : a[j] = 0

\* index of the most significant nonzero digit
Top(a) == CHOOSE j \in DOMAIN a : a[j] # 0 /\ \A k \in DOMAIN a : k > j => a[k] = 0

DigitLen(d) == CHOOSE k \in 1..DigitBits : Pow2(k - 1) <= d /\ d < Pow2(k)

BitLen(a) == IF IsZero(a) THEN 0 ELSE DigitBits * (Top(a) - 1) + DigitLen(a[Top(a)])

Bit(a, i) == (Dig(a, i \div DigitBits + 1) \div Pow2(i % DigitBits)) % 2

\* TRUE iff the n lowest bits of a are zero
LowZero(a, n) ==
    /\ \A j \in 1..(n \div DigitBits) : Dig(a, j) = 0
    /\ Dig(a, n \div DigitBits + 1) % Pow2(n % DigitBits) = 0

Shr(a, n) ==
    LET d == n \div DigitBits
        r == n % DigitBits
    IN  Digits([j \in DOMAIN a |->
            (Dig(a, j + d) \div Pow2(r)) + (Dig(a, j + d + 1) % Pow2(r)) * Pow2(DigitBits - r)])

\* the result must fit the width of a
Shl(a, n) ==
    LET d == n \div DigitBits
        r == n % DigitBits
    IN  Digits([j \in DOMAIN a |->
            (Dig(a, j - d) % Pow2(DigitBits - r)) * Pow2(r)
                + (Dig(a, j - d - 1) \div Pow2(DigitBits - r))])

\* a + b for equal widths, carries resolved by look-ahead
Add(a, b) ==
    LET s == Digits([j \in DOMAIN a |-> a[j] + b[j]])
        carry == [j \in DOMAIN a |->
                    IF \E i \in 1..(j - 1) :
                          s[i] >= Base /\ \A k \in (i + 1)..(j - 1) : s[k] >= Base - 1
                    THEN 1 ELSE 0]
    IN  Digits([j \in DOMAIN a |-> (s[j] + carry[j]) % Base])

\* a - b for equal widths and a >= b
Sub(a, b) ==
    LET d == Digits([j \in DOMAIN a |-> a[j] - b[j]])
        borrow == [j \in DOMAIN a |->
                    IF \E i \in 1..(j - 1) :
                          d[i] < 0 /\ \A k \in (i + 1)..(j - 1) : d[k] <= 0
                    THEN 1 ELSE 0]
    IN  Digits([j \in DOMAIN a |-> (d[j] - borrow[j] + Base) % Base])

\* -1, 0, 1 for equal widths
Cmp(a, b) ==
    LET diff == {j \in DOMAIN a : a[j] # b[j]}
    IN  IF diff = {} THEN 0
        ELSE LET t == CHOOSE j \in diff : \A k \in diff : k <= j
             IN  IF a[t] > b[t] THEN 1 ELSE -1

\* a * k for a digit k; the result must fit the width of a
MulSmall(a, k) ==
    Add([j \in DOMAIN a |-> (a[j] * k) % Base],
        [j \in DOMAIN a |-> (Dig(a, j - 1) * k) \div Base])

\* the product of two mantissas, in WideDigits digits
Mul(a, b) ==
    LET c == Digits([k \in 1..WideDigits |->
                a[1] * Dig(b, k) + a[2] * Dig(b, k - 1) + a[3] * Dig(b, k - 2) + a[4] * Dig(b, k - 3)])
    IN  Add(Add([k \in 1..WideDigits |-> c[k] % Base],
                [k \in 1..WideDigits |-> (Dig(c, k - 1) \div Base) % Base]),
            [k \in 1..WideDigits |-> Dig(c, k - 2) \div (Base * Base)])

\* the remainder r with the next digit of the dividend brought down
BringDown(r, digit) ==
    Digits([j \in DOMAIN r |-> IF j = 1 THEN digit ELSE r[j - 1]])

Min(a, b) == IF a < b THEN a ELSE b

\* the quotient digit estimated from the two top digits of cur; it exceeds the
\* true digit by at most 2 when the top digit of d is at least Base/2
Estimate(cur, d) ==
    Min(Base - 1, (Dig(cur, Len(d) + 1) * Base + cur[Len(d)]) \div d[Len(d)])

Fits(cur, dw, q) == Cmp(MulSmall(dw, q), cur) <= 0

Corrected(cur, dw, qhat) ==
    IF Fits(cur, dw, qhat) THEN qhat
    ELSE IF Fits(cur, dw, qhat - 1) THEN qhat - 1
    ELSE qhat - 2

Remainder(cur, dw, q) == [q |-> q, r |-> Sub(cur, MulSmall(dw, q))]

Quotient(cur, dw, d) == Remainder(cur, dw, Corrected(cur, dw, Estimate(cur, d)))

\* one step of long division by d (its top digit at least Base/2): the next
\* quotient digit and remainder of r * Base + digit
DivStep(r, digit, d) == Quotient(BringDown(r, digit), Resize(d, Len(r)), d)

DivEnd(s5, s4, s3, s2, s1) ==
    [q |-> Resize(<<s1.q, s2.q, s3.q, s4.q, s5.q>>, WideDigits), exact |-> IsZero(s1.r)]

Div1(a, d, s5, s4, s3, s2) == DivEnd(s5, s4, s3, s2, DivStep(s2.r, a[1], d))

Div2(a, d, s5, s4, s3) == Div1(a, d, s5, s4, s3, DivStep(s3.r, a[2], d))

Div3(a, d, s5, s4) == Div2(a, d, s5, s4, DivStep(s4.r, a[3], d))

Div4(a, d, s5) == Div3(a, d, s5, DivStep(s5.r, a[4], d))

\* floor(a / d) and whether the division is exact, for a of WideDigits digits
\* below Base^4 * d and d of MantissaDigits digits with its top digit at least
\* Base/2
DivWide(a, d) ==
    Div4(a, d, DivStep(Digits([j \in 1..(MantissaDigits + 2) |-> Dig(a, j + 5)]), a[5], d))

----
\* binary64 values: s * m * 2^e with 2^52 <= m < 2^53, or zero

FZero == [s |-> 1, m |-> <<0, 0, 0, 0>>, e |-> 0]

\* the value s * N * 2^k rounded to 53 bits, ties to even
Round(s, N, k) ==
    LET L == BitLen(N)
    IN  IF L = 0 THEN FZero
        ELSE IF L <= Precision
        THEN [s |-> s, m |-> Resize(Shl(N, Precision - L), MantissaDigits), e |-> k - (Precision - L)]
        ELSE LET sh == L - Precision
                 q  == Shr(N, sh)
                 up == Bit(N, sh - 1) = 1 /\ (~LowZero(N, sh - 1) \/ q[1] % 2 = 1)
                 q1 == IF up THEN Add(q, FromNat(1, WideDigits)) ELSE q
             IN  IF BitLen(q1) > Precision
                 THEN [s |-> s, m |-> Resize(Shr(q1, 1), MantissaDigits), e |-> k + sh + 1]
                 ELSE [s |-> s, m |-> Resize(q1, MantissaDigits), e |-> k + sh]

FromInt(n) == IF n >= 0 THEN Round(1, FromNat(n, WideDigits), 0)
              ELSE Round(-1, FromNat(-n, WideDigits), 0)

FNeg(a) == IF IsZero(a.m) THEN a ELSE [a EXCEPT !.s = -a.s]

\* the operands of an arithmetic operation are evaluated before the operation
Strict1(Op(_), a) == CHOOSE r \in {Op(x) : x \in {a}} : TRUE
Strict2(Op(_, _), a, b) == CHOOSE r \in {Op(x, y) : x \in {a}, y \in {b}} : TRUE

MulRounded(a, b) ==
    IF IsZero(a.m) \/ IsZero(b.m) THEN FZero
    ELSE Round(a.s * b.s, Mul(a.m, b.m), a.e + b.e)

\* beyond this exponent distance the smaller operand is below a quarter ulp of the larger
FarApart == 58

\* |x| + |y| or |x| - |y| where x.e >= y.e, with the sign of the larger magnitude
AddAligned(x, y) ==
    IF x.e - y.e > FarApart THEN x
    ELSE LET X == Shl(Resize(x.m, WideDigits), x.e - y.e)
             Y == Resize(y.m, WideDigits)
             c == Cmp(X, Y)
         IN  IF x.s = y.s THEN Round(x.s, Add(X, Y), y.e)
             ELSE IF c = 0 THEN FZero
             ELSE IF c > 0 THEN Round(x.s, Sub(X, Y), y.e)
             ELSE Round(y.s, Sub(Y, X), y.e)

AddRounded(a, b) ==
    IF IsZero(a.m) THEN b
    ELSE IF IsZero(b.m) THEN a
    ELSE IF a.e >= b.e THEN AddAligned(a, b) ELSE AddAligned(b, a)

SubRounded(a, b) == AddRounded(a, FNeg(b))

\* a / b for b # 0: the quotient of the mantissas to 57 bits and a sticky bit
Sticky(q2, exact) == IF exact THEN q2 ELSE Add(q2, FromNat(1, WideDigits))

Doubled(d) == Sticky(Add(d.q, d.q), d.exact)

DivRounded(a, b) ==
    IF IsZero(a.m) THEN FZero
    ELSE Round(a.s * b.s,
               Doubled(DivWide(Shl(Resize(a.m, WideDigits), 59), Shl(b.m, 3))),
               a.e - b.e - 57)

\* -1, 0, 1: the sign of a - b; significands are normalised, so magnitudes
\* compare by exponent first
Sign(a, b) ==
    IF IsZero(a.m) THEN (IF IsZero(b.m) THEN 0 ELSE -b.s)
    ELSE IF IsZero(b.m) \/ a.s # b.s THEN a.s
    ELSE IF a.e # b.e THEN (IF a.e > b.e THEN a.s ELSE -a.s)
    ELSE a.s * Cmp(a.m, b.m)

\* np.rint: the nearest integer, ties to even
RintRounded(a) ==
    IF a.e >= 0 \/ IsZero(a.m) THEN a
    ELSE IF -a.e > Precision THEN FZero
    ELSE LET sh == -a.e
             N  == Resize(a.m, WideDigits)
             q  == Shr(N, sh)
             up == Bit(N, sh - 1) = 1 /\ (~LowZero(N, sh - 1) \/ q[1] % 2 = 1)
         IN  Round(a.s, IF up THEN Add(q, FromNat(1, WideDigits)) ELSE q, 0)

FMul(a, b) == Strict2(MulRounded, a, b)
FAdd(a, b) == Strict2(AddRounded, a, b)
FSub(a, b) == Strict2(SubRounded, a, b)
FDiv(a, b) == Strict2(DivRounded, a, b)
FCmp(a, b) == Strict2(Sign, a, b)
FRint(a) == Strict1(RintRounded, a)
FLt(a, b) == FCmp(a, b) < 0
FLe(a, b) == FCmp(a, b) <= 0

Dec(n, d) == FDiv(FromInt(n), FromInt(d))
----
\* Python values

\* an optional JSON field or argument: <<>> is None (or a missing key), <<v>> is v
None == <<>>
Some(v) == <<v>>

\* the decimal strings the API sends, as numerator and denominator
DecimalLiteral ==
    ("0.0" :> <<0, 10>>) @@ ("1.9" :> <<19, 10>>) @@ ("2.0" :> <<20, 10>>) @@
    ("6.0" :> <<60, 10>>) @@ ("8.0" :> <<80, 10>>) @@ ("10.0" :> <<100, 10>>) @@
    ("40.0" :> <<400, 10>>) @@ ("50.0" :> <<500, 10>>) @@
    ("0.10" :> <<10, 100>>) @@ ("0.50" :> <<50, 100>>)

\* float(x) of a decimal string: the binary64 value nearest to the decimal
float == [x \in DOMAIN DecimalLiteral |-> Dec(DecimalLiteral[x][1], DecimalLiteral[x][2])]

\* float(x or 0): None and the empty string are falsy
FloatOr0(x) == IF x = None \/ x = Some("") THEN FromInt(0) ELSE float[x[1]]

----
\* build_dataframe

pos_map == (1 :> "GK") @@ (2 :> "DEF") @@ (3 :> "MID") @@ (4 :> "FWD")

\* pos_map.get(element_type, "MID")
PosMapGet(t) == IF t \in DOMAIN pos_map THEN pos_map[t] ELSE "MID"

MaxOf(S) == CHOOSE x \in S : \A y \in S : y <= x

\* teams = {t["id"]: t ...}; teams.get(p["team"], {}).get("short_name", "???")
TeamShortName(teams, tid) ==
    LET idx == {i \in DOMAIN teams : teams[i].id = tid}
    IN  IF idx = {} THEN "???" ELSE teams[MaxOf(idx)].short_name

\* next((e["id"] for e in events if e["is_next"]), default)
RECURSIVE FirstNext(_, _, _)
FirstNext(events, i, default) ==
    IF i > Len(events) THEN default
    ELSE IF events[i].is_next THEN events[i].id
    ELSE FirstNext(events, i + 1, default)

\* a fallback to the first event of the list instead of the last
CurrentGw_FirstEvent(events) == FirstNext(events, 1, events[1].id)

\* the default events[-1]["id"] is evaluated before next() runs
CurrentGw(events) == FirstNext(events, 1, events[Len(events)].id)

\* a loop condition that forgets the finished flag
Upcoming_AnyResult(f, gw) == f.event = gw

\* if f["event"] == current_gw and not f["finished"]
Upcoming(f, gw) == f.event = gw /\ ~f.finished

\* the next_fdr dict after the loop over fixtures i..end, starting from acc
RECURSIVE NextFdr(_, _, _, _)
NextFdr(fx, gw, i, acc) ==
    IF i > Len(fx) THEN acc
    ELSE LET f == fx[i]
         IN  IF Upcoming(f, gw)
             THEN NextFdr(fx, gw, i + 1,
                          (f.team_a :> f.team_a_difficulty) @@
                          ((f.team_h :> f.team_h_difficulty) @@ acc))
             ELSE NextFdr(fx, gw, i + 1, acc)

EmptyDict == [x \in {} |-> 0]

NeutralFdr == 3

\* next_fdr.get(team, 3)
FdrGet(next_fdr, team) == IF team \in DOMAIN next_fdr THEN next_fdr[team] ELSE NeutralFdr

\* p["status"] in ("a", "u")
Eligible(p) == p.status \in {"a", "u"}

\* max((current_gw - 1) * 90, 1)
Played(gw) == IF (gw - 1) * 90 > 1 THEN (gw - 1) * 90 ELSE 1

\* one appended row
Row(p, teams, next_fdr, gw) ==
    LET fdr == FdrGet(next_fdr, p.team)
    IN  [id           |-> p.id,
         name         |-> p.web_name,
         team         |-> TeamShortName(teams, p.team),
         position     |-> PosMapGet(p.element_type),
         price        |-> FDiv(FromInt(p.now_cost), FromInt(10)),
         form         |-> FloatOr0(p.form),
         ppg          |-> FloatOr0(p.points_per_game),
         ownership    |-> FloatOr0(p.selected_by_percent),
         minutes_pct  |-> FDiv(FromInt(p.minutes), FromInt(Played(gw))),
         ict_index    |-> FloatOr0(p.ict_index),
         bonus        |-> p.bonus,
         xgi_per90    |-> FloatOr0(p.expected_goal_involvements_per_90),
         fdr          |-> fdr,
         fixture_ease |-> 6 - fdr,
         status       |-> p.status]

RECURSIVE Rows(_, _, _, _, _)
Rows(elements, teams, next_fdr, gw, i) ==
    IF i > Len(elements) THEN <<>>
    ELSE IF Eligible(elements[i])
         THEN <<Row(elements[i], teams, next_fdr, gw)>> \o Rows(elements, teams, next_fdr, gw, i + 1)
         ELSE Rows(elements, teams, next_fdr, gw, i + 1)

\* the snapshots build_dataframe is applied to
MaxEvents == 2
MaxFixtures == 2

SeqsUpTo(S, n) == UNION {[1..k -> S] : k \in 0..n}

\* gameweeks are numbered from 1 in list order; any of them may be flagged
EventLists ==
    UNION {{[i \in 1..k |-> [id |-> i, is_next |-> flags[i]]] : flags \in [1..k -> BOOLEAN]} :
           k \in 0..MaxEvents}

\* the gameweeks that have fixtures
ScheduledGws == {1, 2}

\* team 1 against team 2, either one at home, in a scheduled gameweek, played or not
Fixture(ev, fin, home) ==
    IF home = 1
    THEN [event |-> ev, finished |-> fin, team_h |-> 1, team_a |-> 2,
          team_h_difficulty |-> 2, team_a_difficulty |-> 4]
    ELSE [event |-> ev, finished |-> fin, team_h |-> 2, team_a |-> 1,
          team_h_difficulty |-> 1, team_a_difficulty |-> 5]

FixtureLists ==
    SeqsUpTo({Fixture(ev, fin, home) : ev \in ScheduledGws, fin \in BOOLEAN, home \in {1, 2}},
             MaxFixtures)

Teams == <<[id |-> 1, short_name |-> "ARS"], [id |-> 2, short_name |-> "CHE"]>>

\* an available midfielder, a doubtful goalkeeper without statistics, an injured
\* forward, and an available player of a team and a position the tables lack
Roster ==
    << [id |-> 1, web_name |-> "Saka", team |-> 1, element_type |-> 3, status |-> "a",
        now_cost |-> 95, form |-> Some("8.0"), points_per_game |-> Some("6.0"),
        selected_by_percent |-> Some("40.0"), minutes |-> 81, ict_index |-> Some("50.0"),
        bonus |-> 6, expected_goal_involvements_per_90 |-> Some("0.50")],
       [id |-> 2, web_name |-> "Sanchez", team |-> 2, element_type |-> 1, status |-> "u",
        now_cost |-> 45, form |-> None, points_per_game |-> None,
        selected_by_percent |-> None, minutes |-> 0, ict_index |-> None,
        bonus |-> 0, expected_goal_involvements_per_90 |-> None],
       [id |-> 3, web_name |-> "Jesus", team |-> 1, element_type |-> 4, status |-> "i",
        now_cost |-> 65, form |-> Some("1.9"), points_per_game |-> Some("2.0"),
        selected_by_percent |-> Some("10.0"), minutes |-> 27, ict_index |-> Some("10.0"),
        bonus |-> 1, expected_goal_involvements_per_90 |-> Some("0.10")],
       [id |-> 4, web_name |-> "Doe", team |-> 3, element_type |-> 5, status |-> "a",
        now_cost |-> 40, form |-> Some(""), points_per_game |-> Some("0.0"),
        selected_by_percent |-> Some("1.9"), minutes |-> 54, ict_index |-> Some("0.0"),
        bonus |-> 0, expected_goal_involvements_per_90 |-> None] >>

RECURSIVE Pick(_, _, _)
Pick(s, keep, i) ==
    IF i > Len(s) THEN <<>>
    ELSE IF i \in keep THEN <<s[i]>> \o Pick(s, keep, i + 1)
    ELSE Pick(s, keep, i + 1)

\* any selection of the roster, in roster order
ElementLists == {Pick(Roster, keep, 1) : keep \in SUBSET DOMAIN Roster}

NoQuery == [position |-> None, max_price |-> None, top_n |-> 0]

InitBuild ==
    /\ pc = "main"
    /\ exc = "none"
    /\ bootstrap \in {[elements |-> el, teams |-> Teams, events |-> ev] :
                        el \in ElementLists, ev \in EventLists}
    /\ fixtures \in FixtureLists
    /\ current_gw = 0
    /\ df = <<>>
    /\ normed = <<>>
    /\ normed_df = <<>>
    /\ ranked = <<>>
    /\ query = NoQuery
    /\ out = <<>>

\* events[-1] of an empty list
build_dataframe_raises ==
    /\ pc = "main"
    /\ bootstrap.events = <<>>
    /\ pc' = "raised"
    /\ exc' = "IndexError"
    /\ UNCHANGED <<bootstrap, fixtures, current_gw, df, normed, normed_df, ranked, query, out>>

build_dataframe ==
    /\ pc = "main"
    /\ bootstrap.events # <<>>
    /\ LET gw       == CurrentGw(bootstrap.events)
           next_fdr == NextFdr(fixtures, gw, 1, EmptyDict)
       IN  /\ current_gw' = gw
           /\ df' = Rows(bootstrap.elements, bootstrap.teams, next_fdr, gw, 1)
    /\ pc' = "built"
    /\ UNCHANGED <<exc, bootstrap, fixtures, normed, normed_df, ranked, query, out>>

NextBuild == build_dataframe \/ build_dataframe_raises

SpecBuild == InitBuild /\ [][NextBuild]_vars

----
\* score_players

\* list(WEIGHTS.keys()), in insertion order
features == <<"form", "ppg", "fixture_ease", "xgi_per90", "ict_index", "bonus", "ownership">>

FeatureSet == {features[k] : k \in DOMAIN features}

WEIGHTS ==
    ("form" :> Dec(30, 100)) @@ ("ppg" :> Dec(25, 100)) @@ ("fixture_ease" :> Dec(20, 100)) @@
    ("xgi_per90" :> Dec(15, 100)) @@ ("ict_index" :> Dec(10, 100)) @@ ("bonus" :> Dec(8, 100)) @@
    ("ownership" :> FNeg(Dec(5, 100)))

\* the columns pandas holds as int64
IntColumns == {"fixture_ease", "bonus"}

\* df[features] as the float64 array the scaler works on
Column(tbl, f) ==
    Computed([i \in DOMAIN tbl |-> IF f \in IntColumns THEN FromInt(tbl[i][f]) ELSE tbl[i][f]])

RECURSIVE FMinFrom(_, _, _)
FMinFrom(col, i, acc) ==
    IF i > Len(col) THEN acc
    ELSE FMinFrom(col, i + 1, IF FLt(col[i], acc) THEN col[i] ELSE acc)

RECURSIVE FMaxFrom(_, _, _)
FMaxFrom(col, i, acc) ==
    IF i > Len(col) THEN acc
    ELSE FMaxFrom(col, i + 1, IF FLt(acc, col[i]) THEN col[i] ELSE acc)

One == FromInt(1)

\* 10 * np.finfo(float64).eps = 10 * 2^-52
TenEps == Round(1, FromNat(10, WideDigits), -52)

\* sklearn's _handle_zeros_in_scale: a range below 10 eps counts as constant
HandleZeros(range) == IF FLt(range, TenEps) THEN One ELSE range

\* a transform that scales without shifting by min_
Transform_Unshifted(x, scale_, min_) == FMul(x, scale_)

\* MinMaxScaler.transform: X *= scale_; X += min_
Transform(x, scale_, min_) == FAdd(FMul(x, scale_), min_)

\* MinMaxScaler().fit_transform on one column, feature_range (0, 1):
\* data_range = data_max - data_min, scale_ = (1 - 0) / data_range,
\* min_ = 0 - data_min * scale_
MinMaxColumn(col) ==
    LET data_min   == FMinFrom(col, 2, col[1])
        data_max   == FMaxFrom(col, 2, col[1])
        data_range == FSub(data_max, data_min)
        scale_     == FDiv(FSub(One, FromInt(0)), HandleZeros(data_range))
        min_       == FSub(FromInt(0), FMul(data_min, scale_))
    IN  Computed([i \in DOMAIN col |-> Transform(col[i], scale_, min_)])

\* normed: one record of the 7 features per row
fit_transform(tbl) ==
    LET cols == Computed([f \in FeatureSet |-> MinMaxColumn(Column(tbl, f))])
    IN  Computed([i \in DOMAIN tbl |-> Computed([f \in FeatureSet |-> cols[f][i]])])

\* normed_df["ownership"] = 1 - normed_df["ownership"]
InvertOwnership(n) ==
    Computed([i \in DOMAIN n |-> [n[i] EXCEPT !.ownership = FSub(One, @)]])

\* sum(normed_df[f] * w for f, w in WEIGHTS.items()), from the left, starting at 0
RECURSIVE WeightedSum(_, _, _)
WeightedSum(nrow, k, acc) ==
    IF k > Len(features) THEN acc
    ELSE WeightedSum(nrow, k + 1, FAdd(acc, FMul(nrow[features[k]], WEIGHTS[features[k]])))

RotationThreshold == Dec(6, 10)
RotationFactor == Dec(7, 10)

\* df.loc[df["minutes_pct"] < 0.6, "score"] *= 0.7
Penalised(row, score) ==
    IF FLt(row.minutes_pct, RotationThreshold) THEN FMul(score, RotationFactor) ELSE score

\* numpy's round(1): rint(x * 10) / 10
Round1(x) == FDiv(FRint(FMul(x, FromInt(10))), FromInt(10))

\* (df["score"] * 100).round(1)
FinalScore(row, nrow) ==
    Round1(FMul(Penalised(row, WeightedSum(nrow, 1, FromInt(0))), FromInt(100)))

\* the row with its score column set
WithScore(row, score) ==
    Computed([c \in DOMAIN row \cup {"score"} |-> IF c = "score" THEN score ELSE row[c]])

\* sort_values("score", ascending=False) with the default kind="quicksort",
\* which is not a stable sort: every descending order of the rows is a possible
\* result, equal scores in any relative order
DescendingOrders(tbl) ==
    {p \in Permutations(DOMAIN tbl) :
        \A k \in 1..(Len(tbl) - 1) : FLe(tbl[p[k + 1]].score, tbl[p[k]].score)}

\* the tables score_players is applied to: rows as build_dataframe makes them
MaxPlayers == 3

Ratio(a, b) == FDiv(FromInt(a), FromInt(b))

\* a weak or a strong player (the strong one costs more), rarely or widely owned,
\* a defender playing 30% of the minutes or a midfielder playing 60%
PlayerRow(strong, popular, regular) ==
    [id           |-> 0,
     name         |-> "",
     team         |-> "ARS",
     position     |-> IF regular THEN "MID" ELSE "DEF",
     price        |-> IF strong THEN Ratio(95, 10) ELSE Ratio(45, 10),
     form         |-> IF strong THEN float["1.9"] ELSE float["0.0"],
     ppg          |-> IF strong THEN float["6.0"] ELSE float["2.0"],
     ownership    |-> IF popular THEN float["40.0"] ELSE float["10.0"],
     minutes_pct  |-> IF regular THEN Ratio(54, 90) ELSE Ratio(27, 90),
     ict_index    |-> IF strong THEN float["50.0"] ELSE float["10.0"],
     bonus        |-> IF strong THEN 6 ELSE 1,
     xgi_per90    |-> IF strong THEN float["0.50"] ELSE float["0.10"],
     fdr          |-> IF strong THEN 1 ELSE 4,
     fixture_ease |-> IF strong THEN 5 ELSE 2,
     status       |-> "a"]

\* a weak differential on the bench, the same player as a regular, a weak
\* popular regular and a strong popular regular
PlayerPool ==
    {PlayerRow(FALSE, FALSE, FALSE), PlayerRow(FALSE, FALSE, TRUE),
     PlayerRow(FALSE, TRUE, TRUE), PlayerRow(TRUE, TRUE, TRUE)}

\* players are numbered in listing order
Numbered(rows) ==
    Computed([i \in DOMAIN rows |-> [rows[i] EXCEPT !.id = i, !.name = ToString(i)]])

PlayerTables == {Numbered(rows) : rows \in SeqsUpTo(PlayerPool, MaxPlayers)}

InitScore ==
    /\ pc = "built"
    /\ exc = "none"
    /\ bootstrap = [elements |-> <<>>, teams |-> Teams, events |-> <<>>]
    /\ fixtures = <<>>
    /\ current_gw = 2
    /\ df \in PlayerTables
    /\ normed = <<>>
    /\ normed_df = <<>>
    /\ ranked = <<>>
    /\ query = NoQuery
    /\ out = <<>>

\* pd.DataFrame([]) has no columns: df[features] raises KeyError
score_players_raises ==
    /\ pc = "built"
    /\ df = <<>>
    /\ pc' = "raised"
    /\ exc' = "KeyError"
    /\ UNCHANGED <<bootstrap, fixtures, current_gw, df, normed, normed_df, ranked, query, out>>

\* the frame with its score column assigned from the transformed rows
Scored(tbl, nd) ==
    Computed([i \in DOMAIN tbl |-> WithScore(tbl[i], FinalScore(tbl[i], nd[i]))])

\* the rows of tbl in the order p
Reordered(tbl, p) == Computed([k \in DOMAIN tbl |-> tbl[p[k]]])

score_players ==
    /\ pc = "built"
    /\ df # <<>>
    /\ normed' = fit_transform(df)
    /\ normed_df' = InvertOwnership(normed')
    /\ df' = Scored(df, normed_df')
    /\ \E p \in DescendingOrders(df') : ranked' = Reordered(df', p)
    /\ pc' = "scored"
    /\ UNCHANGED <<exc, bootstrap, fixtures, current_gw, query, out>>

NextScore == score_players \/ score_players_raises

SpecScore == InitScore /\ [][NextScore]_vars

----
\* get_recommendations

cols == <<"name", "team", "position", "price", "score", "ppg", "form", "fdr", "ownership", "xgi_per90">>

\* out[cols]: one row restricted to the displayed columns
Project(row) == [c \in {cols[k] : k \in DOMAIN cols} |-> row[c]]

\* a position filter that is never applied
FilterPosition_Off(tbl, position) == tbl

\* if position: out = out[out["position"] == position]; None and "" are falsy
FilterPosition(tbl, position) ==
    IF position \in {None, Some("")} THEN tbl
    ELSE SelectSeq(tbl, LAMBDA r : r.position = position[1])

\* if max_price: out = out[out["price"] <= max_price]; None and 0 are falsy
FilterPrice(tbl, max_price) ==
    IF max_price = None \/ IsZero(max_price[1].m) THEN tbl
    ELSE SelectSeq(tbl, LAMBDA r : FLe(r.price, max_price[1]))

\* DataFrame.head(n): the first n rows, or all but the last -n rows when n < 0
head(tbl, n) ==
    IF n >= 0 THEN SubSeq(tbl, 1, IF n < Len(tbl) THEN n ELSE Len(tbl))
    ELSE SubSeq(tbl, 1, IF Len(tbl) + n > 0 THEN Len(tbl) + n ELSE 0)

\* the rows that to_string(index=False) prints, one line each, in order
Recommendations(tbl, position, max_price, top_n) ==
    LET kept == FilterPrice(FilterPosition(tbl, position), max_price)
    IN  head(Computed([k \in DOMAIN kept |-> Project(kept[k])]), top_n)

\* the queries get_recommendations is called with
MaxTopN == 2

Positions == {None, Some(""), Some("DEF"), Some("MID")}

MaxPrices == {None, Some(FromInt(0)), Some(FromInt(5)), Some(Ratio(95, 10))}

get_recommendations ==
    /\ pc = "scored"
    /\ \E position \in Positions, max_price \in MaxPrices, top_n \in -1..MaxTopN :
          /\ query' = [position |-> position, max_price |-> max_price, top_n |-> top_n]
          /\ out' = Recommendations(ranked, position, max_price, top_n)
    /\ pc' = "recommended"
    /\ UNCHANGED <<exc, bootstrap, fixtures, current_gw, df, normed, normed_df, ranked>>

\* main: score_players, then get_recommendations on the table it returned
NextRec == score_players \/ score_players_raises \/ get_recommendations

SpecRec == InitScore /\ [][NextRec]_vars

----
\* Properties

\* C8: when the event list is not empty, the current gameweek is the id of the
\* first event flagged is_next, and the id of the last event of the list when no
\* event is flagged.
C8_CurrentGameweek ==
    pc = "built" =>
        LET ev      == bootstrap.events
            flagged == {i \in DOMAIN ev : ev[i].is_next}
        IN  IF flagged = {}
            THEN current_gw = ev[Len(ev)].id
            ELSE \E i \in flagged : (\A j \in flagged : i <= j) /\ current_gw = ev[i].id

\* two events, none flagged: the fallback chose the last one
C8_Witness ==
    /\ pc = "built"
    /\ Len(bootstrap.events) = 2
    /\ \A i \in DOMAIN bootstrap.events : ~bootstrap.events[i].is_next
    /\ current_gw = bootstrap.events[2].id

\* C9: each included player's fdr is the difficulty of an unfinished fixture of
\* the current gameweek in which the player's team plays (the home difficulty
\* when the team is at home, the away difficulty when away), it is 3 when the
\* team has no such fixture, and fixture_ease is 6 - fdr.
C9_FixtureDifficulty ==
    pc = "built" =>
        LET el == SelectSeq(bootstrap.elements, Eligible)
        IN  /\ Len(df) = Len(el)
            /\ \A k \in DOMAIN df :
                LET team == el[k].team
                    live == {i \in DOMAIN fixtures :
                                /\ fixtures[i].event = current_gw
                                /\ ~fixtures[i].finished
                                /\ team \in {fixtures[i].team_h, fixtures[i].team_a}}
                IN  /\ df[k].id = el[k].id
                    /\ IF live = {}
                       THEN df[k].fdr = 3
                       ELSE \E i \in live :
                               df[k].fdr = IF fixtures[i].team_h = team
                                           THEN fixtures[i].team_h_difficulty
                                           ELSE fixtures[i].team_a_difficulty
                    /\ df[k].fixture_ease = 6 - df[k].fdr

\* one player away in an unfinished fixture of the current gameweek, one player
\* of a team without any fixture, and a finished fixture of the same gameweek
C9_Witness ==
    /\ pc = "built"
    /\ \E k, l \in DOMAIN df : df[k].fdr = 5 /\ df[k].fixture_ease = 1 /\ df[l].fdr = 3
    /\ \E i \in DOMAIN fixtures : fixtures[i].finished /\ fixtures[i].event = current_gw

\* row i holds the least, or the greatest, value of the column
IsMin(col, i) == \A j \in DOMAIN col : FLe(col[i], col[j])

IsMax(col, i) == \A j \in DOMAIN col : FLe(col[j], col[i])

FAbs(a) == [a EXCEPT !.s = 1]

\* 2^-52, the distance from 1 to the next binary64 value
Ulp == Round(1, FromNat(1, WideDigits), -52)

\* the normalized values of feature f, in row order
NormedColumn(f) == Computed([i \in DOMAIN normed |-> normed[i][f]])

C2_ScoreRange ==
    pc = "scored" =>
        \A i \in DOMAIN df : FLe(FZero, df[i].score) /\ FLe(df[i].score, FromInt(100))

\* two rows that agree on every column outside except
SameExcept(r1, r2, except) == \A c \in DOMAIN r1 \ except : r1[c] = r2[c]

\* the ownership term of the weighted sum of row i
OwnershipTerm(i) == FMul(normed_df[i].ownership, WEIGHTS["ownership"])

\* C3: of two players that differ only in ownership, the one with the lower
\* ownership has an ownership term greater than or equal to the other's.
C3_OwnershipTerm ==
    pc = "scored" =>
        \A i, j \in DOMAIN df :
            /\ SameExcept(df[i], df[j], {"id", "name", "score", "ownership"})
            /\ FLt(df[i].ownership, df[j].ownership)
            => FLe(OwnershipTerm(j), OwnershipTerm(i))

\* C4: of two players with the same scoring features, one with a minutes
\* fraction below 0.6 and one at or above 0.6, the one below 0.6 never has the
\* greater final score.
C4_RotationPenalty ==
    pc = "scored" =>
        \A i, j \in DOMAIN df :
            /\ \A f \in FeatureSet : df[i][f] = df[j][f]
            /\ FLt(df[i].minutes_pct, RotationThreshold)
            /\ ~FLt(df[j].minutes_pct, RotationThreshold)
            => FLe(df[i].score, df[j].score)

\* the place of a returned row in the frame that was passed in
InputIndex(row) == CHOOSE i \in DOMAIN df : df[i].id = row.id

Subsequences(s) == {Pick(s, keep, 1) : keep \in SUBSET DOMAIN s}

\* the ranked table as displayed, and its rows of the queried position
Displayed == Computed([k \in DOMAIN ranked |-> Project(ranked[k])])

OfPosition ==
    SelectSeq(Displayed,
              LAMBDA r : query.position \in {None, Some("")} \/ r.position = query.position[1])

\* C6 (as amended): the records returned for (position P, maximum price M, count
\* N) are, in the same relative order, among the ranked table's records of
\* position P (all records when no position is given), which are, in the same
\* relative order, among the records of the ranked table, and with a nonzero M
\* every returned record costs at most M.  They need not be among the records
\* returned for (P, N): each result is cut to its own first N.
C6_FilterSubsequence ==
    pc = "recommended" =>
        /\ out \in Subsequences(OfPosition)
        /\ OfPosition \in Subsequences(Displayed)
        /\ \A k \in DOMAIN out :
              query.max_price = None \/ IsZero(query.max_price[1].m)
                  \/ FLe(out[k].price, query.max_price[1])

\* a position and a price filter that each drop a row, and a count that cuts
C6_Witness ==
    /\ pc = "recommended"
    /\ query.position = Some("MID")
    /\ query.max_price = Some(FromInt(5))
    /\ query.top_n = 1
    /\ Len(out) = 1
    /\ Len(OfPosition) < Len(Displayed)
    /\ out[1] # OfPosition[1]

\* C6 as stated: the records returned for (P, M, N) are a subset of the records
\* returned for (P, N), which are a subset of the ranked table, and each result
\* keeps the relative order of the ranked table.
C6_SubsetOfTruncated ==
    pc = "recommended" =>
        LET by_position == Recommendations(ranked, query.position, None, query.top_n)
        IN  /\ {out[k] : k \in DOMAIN out} \subseteq {by_position[k] : k \in DOMAIN by_position}
            /\ by_position \in Subsequences(Displayed)
            /\ out \in Subsequences(Displayed)

\* C7: when the player set is empty, score_players returns an empty scored set
\* and raises no exception.
C7_EmptyPlayerSet ==
    df = <<>> => exc = "none" /\ (pc = "scored" => ranked = <<>>)

\* C10: neither score_players nor get_recommendations changes the table passed
\* to it: same columns, same values, same row order.
C10_InputUnchanged ==
    [][/\ pc = "built" => df' = df
       /\ pc = "scored" => ranked' = ranked]_vars
====
